---- MODULE Spec2Model ----
(***************************************************************************)
(* misc/collect.py: merge_profiles folds a mapping {path: content} of      *)
(* OpenWrt profile documents into one overview document; the drivers       *)
(* merge, scan, scrape and scrape_wget call it once per release, write     *)
(* overview.json and patch the versions block of config.js.                *)
(*                                                                         *)
(* JSON objects are records whose DOMAIN is the set of keys present.       *)
(* Display-title strings are sequences of one-character strings, so that   *)
(* str.format and str.strip are computed; ids, targets and codes are       *)
(* opaque strings.  Python's None is the value None.  A content is a       *)
(* record [type, valid, obj]: type "bytes" or "str" (what file.read()      *)
(* returned), valid whether it is the text of a JSON document, obj that    *)
(* document.                                                               *)
(***************************************************************************)
EXTENDS Naturals, Sequences, FiniteSets, TLC

VARIABLES
    action,        \* args.action: "merge", "scan", "scrape", "scrape_wget";
                   \* "call" is merge_profiles called on its own
    config_exists, \* os.path.isfile(config_path)
    releases,      \* the release directories / links the driver discovers, in order
    rel,           \* position of the driver's loop over releases
    profiles,      \* merge_profiles' parameter: the mapping, in iteration order
    download_url,  \* merge_profiles' parameter
    idx,           \* position of merge_profiles' loop over profiles.items()
    output,        \* merge_profiles' local "output"
    returned,      \* what the last merge_profiles call returned to its caller
    versions,      \* the driver's local "versions": RELEASE -> path of its overview
    disk,          \* data/<release>/overview.json files written: release -> document
    config,        \* the versions block of config.js
    patches,       \* number of update_config calls that rewrote config.js
    stdout,        \* what the merge driver dumped
    pc             \* control position

vars == <<action, config_exists, releases, rel, profiles, download_url, idx,
          output, returned, versions, disk, config, patches, stdout, pc>>

-----------------------------------------------------------------------------
(* Bounds of the model *)

MaxDocs == 3       \* documents per mapping (cross-document family)
MaxTitles == 3     \* title entries per profile
MaxImages == 2     \* images per profile
MaxProfiles == 2   \* profiles per bundle
MaxReleases == 2   \* releases a driver discovers

-----------------------------------------------------------------------------
(* Python values *)

SUPPORTED_METADATA_VERSION == 1

None == "None"
EmptyDict == <<>>

Has(obj, key) == key \in DOMAIN obj

\* dict.get(key, default)
get(obj, key, default) == IF key \in DOMAIN obj THEN obj[key] ELSE default

\* d[key] = value
Put(d, key, value) ==
    [k \in DOMAIN d \cup {key} |-> IF k = key THEN value ELSE d[k]]

IsSpace(c) == c = " "

RECURSIVE lstrip(_)
lstrip(s) ==
    IF s = <<>> THEN <<>>
    ELSE IF IsSpace(Head(s)) THEN lstrip(Tail(s)) ELSE s

RECURSIVE rstrip(_)
rstrip(s) ==
    IF s = <<>> THEN <<>>
    ELSE IF IsSpace(s[Len(s)]) THEN rstrip(SubSeq(s, 1, Len(s) - 1)) ELSE s

\* str.strip()
strip(s) == rstrip(lstrip(s))

-----------------------------------------------------------------------------
(* merge_profiles and its nested functions *)

\* get_title raises KeyError: no "title" and no "model"
get_title_raises(title) == ~Has(title, "title") /\ ~Has(title, "model")

get_title(title) ==
    IF Has(title, "title")
    THEN title.title
    ELSE strip(get(title, "vendor", <<>>) \o <<" ">> \o title.model
               \o <<" ">> \o get(title, "variant", <<>>))

\* the first loop of add_profile raises KeyError
images_raises(profile) ==
    \/ ~Has(profile, "images")
    \/ \E i \in 1..Len(profile.images) :
          ~Has(profile.images[i], "name") \/ ~Has(profile.images[i], "type")

\* images.append(image): the whole image is kept
keep_images(profile) == profile.images

\* the first loop of add_profile
reduce_images(profile) ==
    [i \in 1..Len(profile.images) |->
        [name |-> profile.images[i].name, type |-> profile.images[i].type]]

\* target = profile["target"] raises KeyError
target_raises(target, profile) == target = None /\ ~Has(profile, "target")

\* the profile's own target wins over the one passed in
resolve_target_own_first(target, profile) ==
    IF Has(profile, "target") THEN profile.target ELSE target

resolve_target(target, profile) ==
    IF target = None THEN profile.target ELSE target

\* output["models"][title] = {...}; output["models"][title]["code"] = code
model_entry(id, target, images, code) ==
    IF code # None
    THEN [id |-> id, target |-> target, images |-> images, code |-> code]
    ELSE [id |-> id, target |-> target, images |-> images]

\* an entry already there is updated, field by field
store_model_update(models, title, id, target, images, code) ==
    Put(models, title,
        IF title \in DOMAIN models
        THEN model_entry(id, target, images, code) @@ models[title]
        ELSE model_entry(id, target, images, code))

store_model(models, title, id, target, images, code) ==
    Put(models, title, model_entry(id, target, images, code))

\* "break" instead of "continue" at an empty title
RECURSIVE add_titles_break(_, _, _, _, _, _)
add_titles_break(models, titles, id, target, images, code) ==
    IF titles = <<>> THEN [raised |-> FALSE, models |-> models]
    ELSE IF get_title_raises(Head(titles))
    THEN [raised |-> TRUE, models |-> models]
    ELSE LET title == get_title(Head(titles)) IN
         IF Len(title) = 0
         THEN [raised |-> FALSE, models |-> models]
         ELSE add_titles_break(Put(models, title, model_entry(id, target, images, code)),
                               Tail(titles), id, target, images, code)

\* the loop over profile["titles"]: the models after it, and whether it raised
RECURSIVE add_titles(_, _, _, _, _, _)
add_titles(models, titles, id, target, images, code) ==
    IF titles = <<>> THEN [raised |-> FALSE, models |-> models]
    ELSE IF get_title_raises(Head(titles))
    THEN [raised |-> TRUE, models |-> models]
    ELSE LET title == get_title(Head(titles)) IN
         IF Len(title) = 0
         THEN add_titles(models, Tail(titles), id, target, images, code)
         ELSE add_titles(store_model(models, title, id, target, images, code),
                         Tail(titles), id, target, images, code)

add_profile(models, id, target, profile, code) ==
    IF images_raises(profile) \/ target_raises(target, profile)
       \/ ~Has(profile, "titles")
    THEN [raised |-> TRUE, models |-> models]
    ELSE add_titles(models, profile.titles, id, resolve_target(target, profile),
                    reduce_images(profile), code)

\* for id in obj["profiles"]: add_profile(id, obj.get("target"), ...)
\* a bundle's profiles are a sequence of [id, profile] in key order
RECURSIVE add_bundle(_, _, _, _)
add_bundle(models, plist, target, code) ==
    IF plist = <<>> THEN [raised |-> FALSE, models |-> models]
    ELSE LET r == add_profile(models, Head(plist).id, target,
                              Head(plist).profile, code) IN
         IF r.raised THEN r
         ELSE add_bundle(r.models, Tail(plist), target, code)

\* content.decode("utf-8") raises AttributeError: str has no decode
decode_raises(content) == content.type = "str"

\* content.decode, json.loads or obj["metadata_version"] raises, outside the try
load_raises(content) ==
    decode_raises(content) \/ ~content.valid \/ ~Has(content.obj, "metadata_version")

unsupported(content) ==
    content.obj.metadata_version # SUPPORTED_METADATA_VERSION

document_code(obj) == get(obj, "version_code", get(obj, "version_commit", None))

\* the template is not stored
seed_output_without_url(out, code, url) ==
    IF ~Has(out, "version_code")
    THEN [version_code |-> code, models |-> EmptyDict]
    ELSE out

seed_output(out, code, url) ==
    IF ~Has(out, "version_code")
    THEN [version_code |-> code, download_url |-> url, models |-> EmptyDict]
    ELSE out

\* the document's code is never cleared
device_code_kept(out, code) == code

device_code(out, code) == IF out.version_code = code THEN None ELSE code

\* the try block
add_document(models, obj, code) ==
    IF Has(obj, "profiles")
    THEN add_bundle(models, obj.profiles, get(obj, "target", None), code)
    ELSE IF ~Has(obj, "id") \/ ~Has(obj, "target")
    THEN [raised |-> TRUE, models |-> models]
    ELSE add_profile(models, obj.id, obj.target, obj, code)

\* KeyError handled like the JSON error: the document is skipped
merge_step_swallow(out, content, url) ==
    IF load_raises(content) THEN [status |-> "crash", output |-> out]
    ELSE IF unsupported(content) THEN [status |-> "ok", output |-> out]
    ELSE LET obj == content.obj
             seeded == seed_output(out, document_code(obj), url)
             r == add_document(seeded.models, obj,
                               device_code(seeded, document_code(obj)))
         IN  [status |-> "ok", output |-> [seeded EXCEPT !.models = r.models]]

\* the metadata version is tested after output is seeded
merge_step_seed_first(out, content, url) ==
    IF load_raises(content) THEN [status |-> "crash", output |-> out]
    ELSE LET obj == content.obj
             seeded == seed_output(out, document_code(obj), url)
         IN  IF unsupported(content) THEN [status |-> "ok", output |-> seeded]
             ELSE LET r == add_document(seeded.models, obj,
                                        device_code(seeded, document_code(obj)))
                  IN  [status |-> IF r.raised THEN "exit" ELSE "ok",
                       output |-> [seeded EXCEPT !.models = r.models]]

\* one iteration of the loop over profiles.items():
\* status "ok" (next iteration), "exit" (exit(1)) or "crash" (uncaught exception)
merge_step(out, content, url) ==
    IF load_raises(content) THEN [status |-> "crash", output |-> out]
    ELSE IF unsupported(content) THEN [status |-> "ok", output |-> out]
    ELSE LET obj == content.obj
             seeded == seed_output(out, document_code(obj), url)
             r == add_document(seeded.models, obj,
                               device_code(seeded, document_code(obj)))
             out2 == [seeded EXCEPT !.models = r.models]
         IN  [status |-> IF r.raised THEN "exit" ELSE "ok", output |-> out2]

\* the whole call, as a function of its two inputs
RECURSIVE merge_from(_, _, _)
merge_from(out, docs, url) ==
    IF docs = <<>> THEN [status |-> "ok", output |-> out]
    ELSE LET s == merge_step(out, Head(docs), url) IN
         IF s.status = "ok" THEN merge_from(s.output, Tail(docs), url) ELSE s

merge_profiles(docs, url) == merge_from(EmptyDict, docs, url)

-----------------------------------------------------------------------------
(* Inputs: the documents a mapping can hold *)

SeqsUpTo(S, n) == UNION {[1..k -> S] : k \in 0..n}

Image1 == [name |-> "a.bin", type |-> "sysupgrade", sha256 |-> "ab12"]
Image2 == [name |-> "b.bin", type |-> "factory"]
Image3 == [name |-> "c.bin"]
Images == {Image1, Image2, Image3}
ImageLists == SeqsUpTo(Images, MaxImages)

TitleEntries ==
    { [title |-> <<"a">>],
      [title |-> <<>>],
      [title |-> <<" ">>],
      [model |-> <<"a">>],
      [vendor |-> <<"b">>, model |-> <<"a">>],
      [vendor |-> <<" ">>, model |-> <<>>, variant |-> <<>>],
      [vendor |-> <<"b">>] }
TitleLists == SeqsUpTo(TitleEntries, MaxTitles)

Json(obj) == [type |-> "bytes", valid |-> TRUE, obj |-> obj]
Malformed == [type |-> "bytes", valid |-> FALSE]

Single(codes, id, target, titles, images) ==
    Json(codes @@ [metadata_version |-> 1, id |-> id, target |-> target,
                   titles |-> titles, images |-> images])

BaseTitles == << [title |-> <<"a">>] >>
BaseImages == <<Image1, Image2>>

Unsupported ==
    Json([metadata_version |-> 2, version_code |-> "r9", id |-> "devZ",
          target |-> "t9", titles |-> << [title |-> <<"z">>] >>,
          images |-> <<Image2>>])

Without(obj, key) == [k \in DOMAIN obj \ {key} |-> obj[k]]

BaseObject == Single([version_code |-> "r1"], "devA", "t1", BaseTitles, BaseImages).obj

\* documents of the cross-document family
CoreDocs ==
    { Single(c, it[1], "t1", << [title |-> it[2]] >>, <<Image1>>) :
        c \in { [version_code |-> "r1"], [version_commit |-> "r2"], EmptyDict },
        it \in { <<"devA", <<"a">> >>, <<"devB", <<"a">> >>, <<"devB", <<"b">> >> } }
    \cup { Malformed, Unsupported, Json(Without(BaseObject, "images")) }

\* single-profile documents that vary one part of the base document
SingleDocs ==
    { Single([version_code |-> "r1"], "devA", "t1", t, BaseImages) : t \in TitleLists }
    \cup { Single([version_code |-> "r1"], "devA", "t1", BaseTitles, i) : i \in ImageLists }
    \cup { Json(Without(BaseObject, k)) : k \in DOMAIN BaseObject }
    \cup { Single([version_code |-> "r1", version_commit |-> "r2"], "devA", "t1",
                  BaseTitles, BaseImages) }

BundleProfiles ==
    { t @@ [titles |-> << e >>, images |-> <<Image1>>] :
        t \in { EmptyDict, [target |-> "t2"] },
        e \in { [title |-> <<"a">>], [vendor |-> <<"b">>, model |-> <<"a">>] } }
    \cup { [target |-> "t2", titles |-> BaseTitles] }

DeviceId(i) == "dev" \o ToString(i)

BundleDocs ==
    { Json(t @@ [metadata_version |-> 1, version_code |-> "r1",
                 profiles |-> [i \in DOMAIN ps |-> [id |-> DeviceId(i), profile |-> ps[i]]]]) :
        t \in { EmptyDict, [target |-> "t1"] },
        ps \in SeqsUpTo(BundleProfiles, MaxProfiles) }

Mappings ==
    SeqsUpTo(CoreDocs, MaxDocs)
    \cup { <<d>> : d \in SingleDocs \cup BundleDocs }

\* the documents of a release the drivers discover
DriverDocs ==
    { Single([version_code |-> "r1"], "devA", "t1", BaseTitles, <<Image1>>),
      Malformed, Unsupported, Json(Without(BaseObject, "images")) }

DriverMappings == { <<>> } \cup { <<d>> : d \in DriverDocs }

ReleasePaths == { <<"snapshots">>, <<"releases", "21.02.0">> }

Releases == [path : ReleasePaths, profiles : DriverMappings]

Drivers == { "scan", "scrape", "scrape_wget" }

MergeUrls == { <<"https://example.org/{target}">> }

-----------------------------------------------------------------------------
(* The drivers *)

NotReturned == [unset |-> TRUE]
OriginalConfig == [original |-> TRUE]

\* open(path, "r").read() gives str, urlopen(...).read() gives bytes
read_text(files) == [i \in DOMAIN files |-> [files[i] EXCEPT !.type = "str"]]

\* the mapping a driver builds from the files of a release
reads(driver, files) == IF driver = "scrape" THEN files ELSE read_text(files)

\* os.path.basename(path); path.strip("/").split("/")[-2] of ".../targets/"
release_name(release) == release.path[Len(release.path)]

\* release.upper()
upper(name) == IF name = "snapshots" THEN "SNAPSHOTS" ELSE name

\* the download_url each driver passes to merge_profiles
template(driver, release) ==
    CASE driver = "scan" ->
           <<"https://", "domain", "/">> \o release.path \o <<"/targets/{target}">>
      [] driver = "scrape" ->
           <<"domain", "/">> \o release.path \o <<"targets/", "/{target}">>
      [] driver = "scrape_wget" ->
           <<"https://", "host">> \o release.path \o <<"/targets/{target}">>

\* scan and scrape_wget skip a release without profiles.json: "continue"
skips_empty(driver) == driver \in { "scan", "scrape_wget" }

\* every driver registers the release before merging it
registers_always(driver) == TRUE

\* scan and scrape_wget register the release before merging it
registers_first(driver) == driver \in { "scan", "scrape_wget" }

\* scrape: "if len(output) > 0"; scan and scrape_wget write whatever was returned
writes_overview(driver, doc) == driver = "scrape" => DOMAIN doc # {}

register(vs, name) == Put(vs, upper(name), name)

Init ==
    /\ pc = "start"
    /\ rel = 0
    /\ idx = 0
    /\ output = EmptyDict
    /\ returned = NotReturned
    /\ versions = EmptyDict
    /\ disk = EmptyDict
    /\ config = OriginalConfig
    /\ patches = 0
    /\ stdout = NotReturned
    /\ \/ /\ action = "call"
          /\ config_exists = TRUE
          /\ releases = <<>>
          /\ profiles \in Mappings
          /\ download_url \in MergeUrls
       \/ /\ action = "merge"
          /\ config_exists = TRUE
          /\ releases = <<>>
          /\ profiles \in { reads(action, m) : m \in DriverMappings }
          /\ download_url \in MergeUrls
       \/ /\ action \in Drivers
          /\ config_exists \in BOOLEAN
          /\ releases \in SeqsUpTo(Releases, MaxReleases)
          /\ profiles = <<>>
          /\ download_url = <<>>

\* merge_profiles(profiles, download_url), and
\* merge(args): output = merge_profiles(profiles, args.download_url)
StartMerge ==
    /\ pc = "start" /\ action \in { "call", "merge" }
    /\ idx' = 1 /\ output' = EmptyDict /\ pc' = "merge"
    /\ UNCHANGED <<action, config_exists, releases, rel, profiles, download_url,
                   returned, versions, disk, config, patches, stdout>>

\* scrape: config.js not found, exit(1)
ScrapeNoConfig ==
    /\ pc = "start" /\ action = "scrape" /\ ~config_exists
    /\ pc' = "exited"
    /\ UNCHANGED <<action, config_exists, releases, rel, profiles, download_url,
                   idx, output, returned, versions, disk, config, patches, stdout>>

StartLoop ==
    /\ pc = "start" /\ action \in Drivers
    /\ action = "scrape" => config_exists
    /\ rel' = 1 /\ pc' = "loop"
    /\ UNCHANGED <<action, config_exists, releases, profiles, download_url,
                   idx, output, returned, versions, disk, config, patches, stdout>>

\* if len(profiles) == 0: continue
SkipRelease ==
    /\ pc = "loop" /\ rel <= Len(releases)
    /\ skips_empty(action) /\ releases[rel].profiles = <<>>
    /\ rel' = rel + 1
    /\ UNCHANGED <<action, config_exists, releases, profiles, download_url,
                   idx, output, returned, versions, disk, config, patches, stdout, pc>>

\* output = merge_profiles(profiles, download_url) of the next release
CallMerge ==
    /\ pc = "loop" /\ rel <= Len(releases)
    /\ skips_empty(action) => releases[rel].profiles # <<>>
    /\ versions' = IF registers_first(action)
                   THEN register(versions, release_name(releases[rel]))
                   ELSE versions
    /\ profiles' = reads(action, releases[rel].profiles)
    /\ download_url' = template(action, releases[rel])
    /\ idx' = 1 /\ output' = EmptyDict /\ pc' = "merge"
    /\ UNCHANGED <<action, config_exists, releases, rel, returned, disk, config,
                   patches, stdout>>

\* an iteration that ends in "continue": unsupported metadata version
MergeSkip ==
    /\ pc = "merge" /\ idx <= Len(profiles)
    /\ ~load_raises(profiles[idx]) /\ unsupported(profiles[idx])
    /\ LET s == merge_step(output, profiles[idx], download_url) IN
         /\ s.status = "ok"
         /\ output' = s.output
    /\ idx' = idx + 1
    /\ UNCHANGED <<action, config_exists, releases, rel, profiles, download_url,
                   returned, versions, disk, config, patches, stdout, pc>>

\* an iteration that merges its document
MergeDocument ==
    /\ pc = "merge" /\ idx <= Len(profiles)
    /\ ~load_raises(profiles[idx]) /\ ~unsupported(profiles[idx])
    /\ LET s == merge_step(output, profiles[idx], download_url) IN
         /\ s.status = "ok"
         /\ output' = s.output
    /\ idx' = idx + 1
    /\ UNCHANGED <<action, config_exists, releases, rel, profiles, download_url,
                   returned, versions, disk, config, patches, stdout, pc>>

\* except KeyError: exit(1)
MergeAbort ==
    /\ pc = "merge" /\ idx <= Len(profiles)
    /\ LET s == merge_step(output, profiles[idx], download_url) IN
         /\ s.status = "exit"
         /\ output' = s.output
    /\ pc' = "exited"
    /\ UNCHANGED <<action, config_exists, releases, rel, profiles, download_url,
                   idx, returned, versions, disk, config, patches, stdout>>

\* an exception nothing catches ends the process with a traceback
MergeCrash ==
    /\ pc = "merge" /\ idx <= Len(profiles)
    /\ LET s == merge_step(output, profiles[idx], download_url) IN
         /\ s.status = "crash"
         /\ output' = s.output
    /\ pc' = "crashed"
    /\ UNCHANGED <<action, config_exists, releases, rel, profiles, download_url,
                   idx, returned, versions, disk, config, patches, stdout>>

\* return output
MergeReturn ==
    /\ pc = "merge" /\ idx > Len(profiles)
    /\ returned' = output
    /\ pc' = CASE action = "call" -> "returned"
              [] action = "merge" -> "dump"
              [] OTHER -> "write"
    /\ UNCHANGED <<action, config_exists, releases, rel, profiles, download_url,
                   idx, output, versions, disk, config, patches, stdout>>

\* json.dump(output, sys.stdout)
DumpOutput ==
    /\ pc = "dump"
    /\ stdout' = returned
    /\ pc' = "done"
    /\ UNCHANGED <<action, config_exists, releases, rel, profiles, download_url,
                   idx, output, returned, versions, disk, config, patches>>

\* write overview.json (and, in scrape, register the release)
WriteOverview ==
    /\ pc = "write"
    /\ IF writes_overview(action, returned)
       THEN /\ disk' = Put(disk, release_name(releases[rel]), returned)
            /\ versions' = register(versions, release_name(releases[rel]))
       ELSE UNCHANGED <<disk, versions>>
    /\ rel' = rel + 1
    /\ pc' = "loop"
    /\ UNCHANGED <<action, config_exists, releases, profiles, download_url,
                   idx, output, returned, config, patches, stdout>>

\* update_config(config_path, versions)
UpdateConfig ==
    /\ pc = "loop" /\ rel > Len(releases)
    /\ IF config_exists
       THEN config' = versions /\ patches' = patches + 1 /\ pc' = "done"
       ELSE pc' = "crashed" /\ UNCHANGED <<config, patches>>
    /\ UNCHANGED <<action, config_exists, releases, rel, profiles, download_url,
                   idx, output, returned, versions, disk, stdout>>

Next ==
    \/ StartMerge
    \/ ScrapeNoConfig
    \/ StartLoop
    \/ SkipRelease
    \/ CallMerge
    \/ MergeSkip
    \/ MergeDocument
    \/ MergeAbort
    \/ MergeCrash
    \/ MergeReturn
    \/ DumpOutput
    \/ WriteOverview
    \/ UpdateConfig

Spec == Init /\ [][Next]_vars

-----------------------------------------------------------------------------
(* Vocabulary of the properties *)

\* profiles is the mapping of the current (or last) merge_profiles call
InCall == idx >= 1

MergeRunning == pc = "merge"
MergeReturned == pc \in { "returned", "dump", "write" }
MergeExited == pc = "exited" /\ idx >= 1
MergeCrashed == pc = "crashed" /\ idx >= 1 /\ idx <= Len(profiles)
MergeEnded == MergeReturned \/ MergeExited \/ MergeCrashed

\* the value of output that the properties speak about
Document == IF MergeReturned THEN returned ELSE output

\* positions whose iteration has completed
Processed == 1..(idx - 1)

RemoveAt(seq, i) == SubSeq(seq, 1, i - 1) \o SubSeq(seq, i + 1, Len(seq))

\* the display title as the data model words it: the explicit title, or
\* "vendor model variant" without its surrounding blanks
Trimmed(s) ==
    LET solid == { i \in 1..Len(s) : s[i] # " " } IN
    IF solid = {} THEN <<>>
    ELSE SubSeq(s, CHOOSE i \in solid : \A j \in solid : i <= j,
                   CHOOSE i \in solid : \A j \in solid : i >= j)

DisplayTitle(e) ==
    IF "title" \in DOMAIN e THEN e.title
    ELSE Trimmed((IF "vendor" \in DOMAIN e THEN e.vendor ELSE <<>>) \o <<" ">>
                 \o e.model \o <<" ">>
                 \o (IF "variant" \in DOMAIN e THEN e.variant ELSE <<>>))

WellFormedTitles(ts) ==
    \A i \in 1..Len(ts) : "title" \in DOMAIN ts[i] \/ "model" \in DOMAIN ts[i]

WellFormedImages(is) ==
    \A i \in 1..Len(is) : { "name", "type" } \subseteq DOMAIN is[i]

Parsed(content) ==
    content.type = "bytes" /\ content.valid /\ "metadata_version" \in DOMAIN content.obj

Supported(content) == Parsed(content) /\ content.obj.metadata_version = 1

IsBundle(content) == Supported(content) /\ "profiles" \in DOMAIN content.obj

\* a single-profile document with every key the merge reads
ValidSingle(content) ==
    /\ Supported(content) /\ ~IsBundle(content)
    /\ { "id", "target", "titles", "images" } \subseteq DOMAIN content.obj
    /\ WellFormedTitles(content.obj.titles)
    /\ WellFormedImages(content.obj.images)

\* a profile of a bundle with every key the merge reads
ValidBundled(obj, p) ==
    /\ { "titles", "images" } \subseteq DOMAIN p
    /\ "target" \in DOMAIN obj \/ "target" \in DOMAIN p
    /\ WellFormedTitles(p.titles)
    /\ WellFormedImages(p.images)

ValidBundle(content) ==
    /\ IsBundle(content)
    /\ \A i \in 1..Len(content.obj.profiles) :
          ValidBundled(content.obj, content.obj.profiles[i].profile)

\* a document with supported metadata version that lacks a required key
LacksRequiredKey(content) ==
    Supported(content) /\ ~ValidSingle(content) /\ ~ValidBundle(content)

NonEmptyTitles(ts) ==
    { DisplayTitle(ts[i]) : i \in 1..Len(ts) } \ { <<>> }

-----------------------------------------------------------------------------
(* C1 *)

C1_Case ==
    /\ InCall /\ Len(profiles) = 1 /\ ValidSingle(profiles[1])
    /\ Cardinality(NonEmptyTitles(profiles[1].obj.titles)) = 1

\* C1: a mapping holding one valid single-profile document whose titles yield
\* one non-empty display title is merged into a document whose models map has
\* exactly one entry, keyed by that title, with the document's id and target
\* and one image per input image, in order, reduced to its name and type.
C1_SingleProfile ==
    (C1_Case /\ MergeEnded) =>
        LET obj == profiles[1].obj
            title == CHOOSE t \in NonEmptyTitles(obj.titles) : TRUE
        IN  /\ MergeReturned
            /\ DOMAIN returned.models = { title }
            /\ returned.models[title].id = obj.id
            /\ returned.models[title].target = obj.target
            /\ Len(returned.models[title].images) = Len(obj.images)
            /\ \A i \in 1..Len(obj.images) :
                  returned.models[title].images[i] =
                      [name |-> obj.images[i].name, type |-> obj.images[i].type]

C1_Witness ==
    /\ C1_Case /\ MergeReturned
    /\ Len(profiles[1].obj.images) = 2
    /\ profiles[1].obj.images[1] # profiles[1].obj.images[2]
    /\ \E i \in 1..2 : DOMAIN profiles[1].obj.images[i] # { "name", "type" }
    /\ "model" \in DOMAIN profiles[1].obj.titles[1]

-----------------------------------------------------------------------------
(* C2 *)

\* a document's code: version_code, else version_commit
DocCode(content) ==
    IF "version_code" \in DOMAIN content.obj THEN content.obj.version_code
    ELSE IF "version_commit" \in DOMAIN content.obj THEN content.obj.version_commit
    ELSE None

\* the positions with supported metadata version the loop has reached
Reached ==
    { i \in 1..Len(profiles) :
        Supported(profiles[i]) /\ (i < idx \/ (i = idx /\ MergeExited)) }

Lowest(S) == CHOOSE i \in S : \A j \in S : i <= j
Highest(S) == CHOOSE i \in S : \A j \in S : i >= j

ProfilesOf(content) ==
    IF IsBundle(content)
    THEN [i \in 1..Len(content.obj.profiles) |-> content.obj.profiles[i].profile]
    ELSE << content.obj >>

\* the display titles a document writes
TitlesOf(content) ==
    UNION { NonEmptyTitles(ProfilesOf(content)[i].titles) :
              i \in 1..Len(ProfilesOf(content)) }

\* the completed positions that wrote title t
Writers(t) ==
    { i \in Processed : Supported(profiles[i]) /\ t \in TitlesOf(profiles[i]) }

\* C2: version_code is the code of the first parsed document from the moment
\* it is set (so it never changes); between iterations and on return, a models
\* entry last written by a document whose code equals version_code has no code
\* field, and one last written by a document that has a differing code carries
\* exactly that code.
C2_VersionCode ==
    InCall =>
        /\ IF Reached = {}
           THEN "version_code" \notin DOMAIN Document
           ELSE Document.version_code = DocCode(profiles[Lowest(Reached)])
        /\ (MergeRunning \/ MergeReturned) /\ Reached # {} =>
              \A t \in DOMAIN Document.models :
                  LET c == DocCode(profiles[Highest(Writers(t))])
                      entry == Document.models[t]
                  IN  /\ c = Document.version_code => "code" \notin DOMAIN entry
                      /\ c # Document.version_code /\ c # None =>
                            "code" \in DOMAIN entry /\ entry.code = c

C2_Witness ==
    /\ MergeReturned /\ Len(profiles) = 3
    /\ DocCode(profiles[2]) \notin { None, returned.version_code }
    /\ DocCode(profiles[3]) = returned.version_code
    /\ \E t, u \in DOMAIN returned.models :
          /\ "code" \in DOMAIN returned.models[t]
          /\ "code" \notin DOMAIN returned.models[u]
          /\ Highest(Writers(u)) = 3

-----------------------------------------------------------------------------
(* C3 *)

\* position i holds the first document that lacks a required key, and every
\* document before it can be loaded
FirstLacking(i) ==
    /\ LacksRequiredKey(profiles[i])
    /\ \A j \in 1..(i - 1) : Parsed(profiles[j]) /\ ~LacksRequiredKey(profiles[j])

\* the overview files on disk all belong to releases before the current one
OnlyEarlierWritten ==
    \A n \in DOMAIN disk : \E r \in 1..(rel - 1) : release_name(releases[r]) = n

\* C3: when a document with supported metadata version lacks a required key,
\* the call ends in exit(1) at that document: it never returns, the loop never
\* moves past the document, nothing is dumped, no overview is written for the
\* release being merged and config.js is not patched.
C3_MissingKeyAborts ==
    \A i \in 1..Len(profiles) :
        (InCall /\ FirstLacking(i)) =>
            /\ pc \in { "merge", "exited" }
            /\ idx <= i
            /\ pc = "exited" => idx = i
            /\ stdout = NotReturned
            /\ action \in { "call", "merge" } => returned = NotReturned
            /\ action \in Drivers => OnlyEarlierWritten
            /\ patches = 0 /\ config = OriginalConfig

C3_Witness ==
    /\ MergeExited /\ 1 < idx /\ idx < Len(profiles)
    /\ FirstLacking(idx)
    /\ Supported(profiles[idx + 1])
    /\ DOMAIN output.models # {}

-----------------------------------------------------------------------------
(* C4 *)

IsWellFormedJson(content) == content.valid

\* C4: a mapping with an entry that is not parseable JSON is merged like the
\* same mapping without such entries: when that one returns a document, the
\* call returns the same document.
C4_MalformedSkipped ==
    (InCall /\ MergeEnded /\ \E i \in 1..Len(profiles) : ~profiles[i].valid) =>
        LET rest == merge_profiles(SelectSeq(profiles, IsWellFormedJson), download_url)
        IN  rest.status = "ok" => MergeReturned /\ returned = rest.output

-----------------------------------------------------------------------------
(* C5 *)

IsUnsupported(content) ==
    Parsed(content) /\ content.obj.metadata_version # 1

Outcome ==
    IF MergeReturned THEN "ok" ELSE IF MergeExited THEN "exit" ELSE "crash"

\* C5: a document whose metadata_version is not 1, at any position, leaves
\* the merge as it would be without it: between iterations output is what the
\* documents before the current one give with that document removed, and the
\* call ends the same way and returns the same document as for the mapping
\* without that document.
C5_UnsupportedSkipped ==
    \A i \in 1..Len(profiles) :
        (InCall /\ IsUnsupported(profiles[i])) =>
            /\ MergeRunning /\ i < idx =>
                  output = merge_profiles(RemoveAt(SubSeq(profiles, 1, idx - 1), i),
                                          download_url).output
            /\ MergeEnded =>
                  LET rest == merge_profiles(RemoveAt(profiles, i), download_url)
                  IN  /\ rest.status = Outcome
                      /\ MergeReturned => returned = rest.output

C5_Witness ==
    /\ MergeReturned /\ Len(profiles) = 3
    /\ IsUnsupported(profiles[1]) /\ IsUnsupported(profiles[3])
    /\ Supported(profiles[2])
    /\ DOMAIN returned.models # {}
    /\ "z" \notin { t[1] : t \in DOMAIN returned.models }

-----------------------------------------------------------------------------
(* C6 *)

IdOf(content, k) ==
    IF IsBundle(content) THEN content.obj.profiles[k].id ELSE content.obj.id

ReducedImages(p) ==
    [i \in 1..Len(p.images) |-> [name |-> p.images[i].name, type |-> p.images[i].type]]

\* the target the merge records for a profile of a document
RecordedTarget(content, p) ==
    IF "target" \in DOMAIN content.obj THEN content.obj.target ELSE p.target

\* a later profile of the same document also yields title t
RewrittenLater(content, k, t) ==
    \E m \in (k + 1)..Len(ProfilesOf(content)) :
        t \in NonEmptyTitles(ProfilesOf(content)[m].titles)

\* the call ends early only at a document that cannot be loaded or lacks a key
NoSpuriousEnd ==
    /\ MergeExited => LacksRequiredKey(profiles[idx])
    /\ MergeCrashed => ~Parsed(profiles[idx])

\* C6: right after a document is merged, no models entry has the empty title,
\* and every title entry of each of its profiles with a non-empty display
\* title has its models entry with that profile's id, target and images,
\* wherever an empty title stands in the list; an empty title ends no run.
C6_EmptyTitleSkipped ==
    /\ InCall => NoSpuriousEnd
    /\ (InCall /\ (MergeRunning \/ MergeReturned) /\ idx > 1
          /\ Supported(profiles[idx - 1])) =>
          LET content == profiles[idx - 1]
              ps == ProfilesOf(content)
          IN  /\ <<>> \notin DOMAIN Document.models
              /\ \A k \in 1..Len(ps) : \A j \in 1..Len(ps[k].titles) :
                    LET t == DisplayTitle(ps[k].titles[j]) IN
                    t # <<>> =>
                        /\ t \in DOMAIN Document.models
                        /\ \/ RewrittenLater(content, k, t)
                           \/ /\ Document.models[t].id = IdOf(content, k)
                              /\ Document.models[t].target = RecordedTarget(content, ps[k])
                              /\ Document.models[t].images = ReducedImages(ps[k])

C6_Witness ==
    /\ MergeReturned /\ Len(profiles) = 1 /\ ValidSingle(profiles[1])
    /\ Len(profiles[1].obj.titles) = 3
    /\ "vendor" \in DOMAIN profiles[1].obj.titles[2]
    /\ DisplayTitle(profiles[1].obj.titles[2]) = <<>>
    /\ DisplayTitle(profiles[1].obj.titles[1]) \in DOMAIN returned.models
    /\ DisplayTitle(profiles[1].obj.titles[3]) \in DOMAIN returned.models
    /\ DisplayTitle(profiles[1].obj.titles[1]) # DisplayTitle(profiles[1].obj.titles[3])

-----------------------------------------------------------------------------
(* C7 *)

OutputFields == { "version_code", "download_url", "models" }

\* C7 as stated: every returned document, and every overview written, has the
\* three fields version_code, download_url and models, download_url being the
\* template passed in.
C7_AlwaysThreeFields ==
    /\ (InCall /\ MergeReturned) =>
          DOMAIN returned = OutputFields /\ returned.download_url = download_url
    /\ \A n \in DOMAIN disk : DOMAIN disk[n] = OutputFields

\* C7 amended: a returned document has the three fields, with the template as
\* download_url, exactly when the mapping holds a document with supported
\* metadata version; otherwise it is the empty document.  Every overview a
\* driver writes, and every one it registers, has the three fields, with the
\* template of its release as download_url.
C7_ThreeFieldsOrEmpty ==
    /\ (InCall /\ MergeReturned) =>
          IF \E i \in 1..Len(profiles) : Supported(profiles[i])
          THEN DOMAIN returned = OutputFields /\ returned.download_url = download_url
          ELSE returned = EmptyDict
    /\ \A n \in DOMAIN disk :
          /\ DOMAIN disk[n] = OutputFields
          /\ \E r \in 1..Len(releases) :
                /\ release_name(releases[r]) = n
                /\ disk[n].download_url = template(action, releases[r])
    /\ pc = "done" => \A k \in DOMAIN versions : versions[k] \in DOMAIN disk

C7_Witness ==
    /\ pc = "done" /\ action = "scrape" /\ Len(releases) = 2
    /\ returned = EmptyDict
    /\ \E i \in 1..Len(profiles) : IsUnsupported(profiles[i])
    /\ \E n \in DOMAIN disk :
          DOMAIN disk[n] = OutputFields /\ upper(n) \in DOMAIN versions

-----------------------------------------------------------------------------
(* C8 *)

JustMergedBundle ==
    /\ InCall /\ (MergeRunning \/ MergeReturned) /\ idx > 1
    /\ IsBundle(profiles[idx - 1])

\* the models entry of each title of each profile of the bundle just merged
\* has the target Target(content, profile)
BundleTargets(Target(_, _)) ==
    LET content == profiles[idx - 1]
        ps == ProfilesOf(content)
    IN  \A k \in 1..Len(ps) : \A t \in NonEmptyTitles(ps[k].titles) :
            \/ RewrittenLater(content, k, t)
            \/ Document.models[t].target = Target(content, ps[k])

OwnTargetFirst(content, p) ==
    IF "target" \in DOMAIN p THEN p.target ELSE content.obj.target

LacksTarget(content) ==
    /\ IsBundle(content) /\ "target" \notin DOMAIN content.obj
    /\ \E k \in 1..Len(ProfilesOf(content)) :
          "target" \notin DOMAIN ProfilesOf(content)[k]

\* C8 as stated: a profile of a bundle is recorded with its own target when it
\* sets one, and with the document-level target otherwise.
C8_OwnTargetFirst == JustMergedBundle => BundleTargets(OwnTargetFirst)

\* C8 amended: a profile of a bundle is recorded with the document-level
\* target when the document sets one, and with its own target otherwise; a
\* bundle with a profile for which neither is set is never merged: the call
\* exits there.
C8_DocumentTargetFirst ==
    /\ JustMergedBundle =>
          /\ BundleTargets(RecordedTarget)
          /\ ~LacksTarget(profiles[idx - 1])
    /\ \A i \in 1..Len(profiles) :
          (InCall /\ LacksTarget(profiles[i]) /\ FirstLacking(i)) =>
              pc \in { "merge", "exited" } /\ idx <= i

C8_Witness ==
    /\ JustMergedBundle /\ MergeReturned
    /\ "target" \in DOMAIN profiles[1].obj
    /\ \E k \in 1..Len(ProfilesOf(profiles[1])) :
          LET p == ProfilesOf(profiles[1])[k] IN
          /\ "target" \in DOMAIN p /\ p.target # profiles[1].obj.target
          /\ \E t \in NonEmptyTitles(p.titles) :
                ~RewrittenLater(profiles[1], k, t)
                /\ returned.models[t].target = profiles[1].obj.target

-----------------------------------------------------------------------------
(* C9 *)

\* the title entries the completed iterations wrote: <<document, profile,
\* title entry>> positions, in the order of the mapping
WriteKeys ==
    UNION { UNION { { <<i, k, j>> :
                        j \in { j \in 1..Len(ProfilesOf(profiles[i])[k].titles) :
                                  DisplayTitle(ProfilesOf(profiles[i])[k].titles[j]) # <<>> } } :
                    k \in 1..Len(ProfilesOf(profiles[i])) } :
            i \in { i \in Processed : Supported(profiles[i]) } }

TitleAt(w) == DisplayTitle(ProfilesOf(profiles[w[1]])[w[2]].titles[w[3]])

Earlier(v, w) ==
    \/ v[1] < w[1]
    \/ v[1] = w[1] /\ v[2] < w[2]
    \/ v[1] = w[1] /\ v[2] = w[2] /\ v[3] <= w[3]

LastWrite(t) ==
    CHOOSE w \in WriteKeys :
        TitleAt(w) = t /\ \A v \in WriteKeys : TitleAt(v) = t => Earlier(v, w)

\* the entry title entry w writes when the document-wide code is vc
EntryOf(w, vc) ==
    LET content == profiles[w[1]]
        p == ProfilesOf(content)[w[2]]
        base == [id |-> IdOf(content, w[2]),
                 target |-> RecordedTarget(content, p),
                 images |-> ReducedImages(p)]
    IN  IF DocCode(content) \in { None, vc } THEN base
        ELSE base @@ [code |-> DocCode(content)]

\* C9: between iterations and on return, models holds exactly the titles
\* written so far, each with the entry of the title entry that wrote it last
\* in mapping order and nothing of an earlier writer; a collision ends no run.
C9_LastWriterWins ==
    /\ InCall => NoSpuriousEnd
    /\ (InCall /\ (MergeRunning \/ MergeReturned) /\ Reached # {}) =>
          /\ DOMAIN Document.models = { TitleAt(w) : w \in WriteKeys }
          /\ \A t \in DOMAIN Document.models :
                Document.models[t] = EntryOf(LastWrite(t), Document.version_code)

C9_Witness ==
    /\ MergeReturned /\ Len(profiles) = 3
    /\ \E t \in DOMAIN returned.models :
          /\ { w[1] : w \in { v \in WriteKeys : TitleAt(v) = t } } = { 1, 2, 3 }
          /\ DocCode(profiles[2]) \notin { None, returned.version_code }
          /\ "code" \notin DOMAIN returned.models[t]
          /\ IdOf(profiles[2], 1) # IdOf(profiles[3], 1)

-----------------------------------------------------------------------------
(* C10 *)

\* the driver wrote an overview for the release at position r
Written(r) ==
    IF action = "scrape"
    THEN merge_profiles(reads(action, releases[r].profiles),
                        template(action, releases[r])).output # EmptyDict
    ELSE releases[r].profiles # <<>>

\* C10: config.js is patched at most once, as the last step of a run, with
\* every registered release's overview already written; until then, and in
\* every run that an exit or an exception ends, config.js is as it was, and
\* the overviews of the releases already handled are on disk.
C10_PatchLast ==
    /\ patches <= 1
    /\ patches = 0 => config = OriginalConfig
    /\ patches = 1 =>
          /\ pc = "done" /\ action \in Drivers /\ rel > Len(releases)
          /\ config = versions
          /\ \A k \in DOMAIN versions : versions[k] \in DOMAIN disk
    /\ pc \in { "exited", "crashed" } => patches = 0
    /\ action \in Drivers =>
          \A r \in 1..Len(releases) :
              (r < rel /\ Written(r)) => release_name(releases[r]) \in DOMAIN disk

C10_Witness ==
    /\ pc = "done" /\ patches = 1 /\ action = "scrape"
    /\ Cardinality(DOMAIN versions) = 2
    /\ Len(releases) = 2

\* C10, the aborted run: the merge of the second release exits while the
\* overview of the first is on disk and config.js is untouched
C10_AbortWitness ==
    /\ MergeExited /\ action = "scrape" /\ rel = 2
    /\ DOMAIN disk # {} /\ config = OriginalConfig

====
